---------------------------- MODULE Spec2Model ----------------------------
(***************************************************************************)
(* A model of src/Code.py: the EV fleet script's four functions            *)
(*   make_operational_decisions, remote_control, continuous_improvement,   *)
(*   calculate_roi                                                         *)
(* and the module-level data / df they are applied to.                     *)
(*                                                                         *)
(* Python floats are modelled as IEEE-754 binary64 values with an explicit *)
(* 53-bit significand (a sequence of bits, most significant first), so     *)
(* that the roundings of `/` and `*` are those of the interpreter.         *)
(***************************************************************************)
EXTENDS Integers, Sequences, FiniteSets, TLC

(***************************************************************************)
(* Bounds of the model.                                                    *)
(***************************************************************************)
\* the longest list `data` the collector builds
MaxBatch == 3

(***************************************************************************)
(* Python float arithmetic (binary64, round-half-to-even).                 *)
(***************************************************************************)
\* the significand width of a Python float
MantBits == 53

RECURSIVE Pow2(_)
Pow2(n) == IF n = 0 THEN 1 ELSE 2 * Pow2(n - 1)

Abs(x) == IF x < 0 THEN -x ELSE x

Max(x, y) == IF x >= y THEN x ELSE y

RECURSIVE BitLen(_)
\* int.bit_length() of n >= 0
BitLen(n) == IF n = 0 THEN 0 ELSE 1 + BitLen(n \div 2)

RECURSIVE Bits(_)
\* the binary digits of n >= 0, most significant first, no leading zero
Bits(n) == IF n = 0 THEN << >> ELSE Append(Bits(n \div 2), n % 2)

Zeros(n) == [i \in 1..n |-> 0]

AllOnes(b) == \A i \in 1..Len(b) : b[i] = 1

\* b + 1 for a bit sequence b that is not all ones: the last 0 becomes 1
\* and the ones after it become 0
Inc(b) ==
    LET p == CHOOSE i \in 1..Len(b) :
                 b[i] = 0 /\ \A j \in (i + 1)..Len(b) : b[j] = 1
    IN  [i \in 1..Len(b) |-> IF i < p THEN b[i] ELSE IF i = p THEN 1 ELSE 0]

RECURSIVE BitsToInt(_)
\* the number a bit sequence (most significant first) denotes
BitsToInt(b) ==
    IF Len(b) = 0 THEN 0
    ELSE 2 * BitsToInt(SubSeq(b, 1, Len(b) - 1)) + b[Len(b)]

\* the digits of ds, each written with w bits
DigitsToBits(ds, w) ==
    [i \in 1..(w * Len(ds)) |->
        (ds[((i - 1) \div w) + 1] \div Pow2(w - 1 - ((i - 1) % w))) % 2]

FloatZero(sign) == [cls |-> "zero", sign |-> sign, exp |-> 0, mant |-> << >>]

FloatNaN == [cls |-> "nan", sign |-> 0, exp |-> 0, mant |-> << >>]

\* The float nearest to (-1)^sign * b1.b2 b3 ... * 2^exp, where bits has a
\* leading 1 and at least MantBits digits and `sticky` says that non-zero
\* digits follow those given: round half to even.
RoundNearestEven(sign, exp, bits, sticky) ==
    LET mant  == SubSeq(bits, 1, MantBits)
        guard == IF Len(bits) > MantBits THEN bits[MantBits + 1] ELSE 0
        rest  == sticky \/ \E i \in (MantBits + 2)..Len(bits) : bits[i] = 1
        up    == guard = 1 /\ (rest \/ mant[MantBits] = 1)
    IN  IF ~up THEN [cls |-> "normal", sign |-> sign, exp |-> exp, mant |-> mant]
        ELSE IF AllOnes(mant)
        THEN [cls |-> "normal", sign |-> sign, exp |-> exp + 1,
              mant |-> <<1>> \o Zeros(MantBits - 1)]
        ELSE [cls |-> "normal", sign |-> sign, exp |-> exp, mant |-> Inc(mant)]

RECURSIVE LongDiv(_, _, _)
\* n base-64 digits of the fraction r / B (r < B), and the remainder left
LongDiv(r, B, n) ==
    IF n = 0 THEN [digits |-> << >>, rem |-> r]
    ELSE LET rest == LongDiv((64 * r) % B, B, n - 1)
         IN  [digits |-> <<(64 * r) \div B>> \o rest.digits, rem |-> rest.rem]

\* float(n) for an int n that a float holds exactly
FromInt(n) ==
    IF n = 0 THEN FloatZero(0)
    ELSE LET b == Bits(Abs(n))
         IN  [cls |-> "normal", sign |-> IF n < 0 THEN 1 ELSE 0,
              exp |-> Len(b) - 1, mant |-> b \o Zeros(MantBits - Len(b))]

\* a / b for two ints, b # 0: the correctly rounded quotient.  A / B is the
\* quotient scaled into [1, 2); 54 digits of its fraction decide the rounding.
TrueDiv(a, b) ==
    LET sign == IF (a < 0) = (b < 0) THEN 0 ELSE 1
        e0   == BitLen(Abs(a)) - BitLen(Abs(b))
        A0   == Abs(a) * Pow2(Max(-e0, 0))
        B    == Abs(b) * Pow2(Max(e0, 0))
        exp  == IF A0 >= B THEN e0 ELSE e0 - 1
        A    == IF A0 >= B THEN A0 ELSE 2 * A0
        q    == LongDiv(A - B, B, 9)
    IN  IF a = 0 THEN FloatZero(sign)
        ELSE RoundNearestEven(sign, exp, <<1>> \o DigitsToBits(q.digits, 6),
                              q.rem # 0)

\* the digits of m * k for a 53-bit sequence m and a small k > 0, computed
\* on three limbs of m (17 + 18 + 18 bits) with carries
MulBits(m, k) ==
    LET lo == BitsToInt(SubSeq(m, 36, 53)) * k
        mi == BitsToInt(SubSeq(m, 18, 35)) * k + lo \div Pow2(18)
        hi == BitsToInt(SubSeq(m, 1, 17)) * k + mi \div Pow2(18)
    IN  Bits(hi) \o DigitsToBits(<<mi % Pow2(18), lo % Pow2(18)>>, 18)

\* x * k for a float x and an int literal k > 0 that a float holds exactly
FloatMulInt(x, k) ==
    IF x.cls # "normal" THEN x
    ELSE LET p == MulBits(x.mant, k)
         IN  RoundNearestEven(x.sign, x.exp + (Len(p) - MantBits), p, FALSE)

(***************************************************************************)
(* Values.  A snapshot is the dict collect_ev_data returns; of its seven   *)
(* keys only ev_id, battery_level and speed are read by the functions      *)
(* below.  speed is a float in the script; the model draws integral        *)
(* speeds, which decide the comparison with 70 the same way.  An f-string  *)
(* is kept as its template, as written in the source, with the values it   *)
(* interpolates.                                                           *)
(***************************************************************************)
\* the ids the script collects data for
EvIds == 101..104

\* random.randint(0, 100)
BatteryLevels == 0..100

\* random.uniform(0, 80), integral values
Speeds == 0..80

Snapshot(ev_id, battery_level, speed) ==
    [ev_id |-> ev_id, battery_level |-> battery_level, speed |-> speed]

FString(template, values) == [template |-> template, values |-> values]

\* how a call ends: it returns a value (None: no value) or raises
ReturnNone == [kind |-> "return", exc |-> "", value |-> << >>]

Return(v) == [kind |-> "return", exc |-> "", value |-> <<v>>]

Raise(exc) == [kind |-> "raise", exc |-> exc, value |-> << >>]

\* what a call does: the lines it prints and how it ends
Outcome(stdout, ret) == [stdout |-> stdout, ret |-> ret]

(***************************************************************************)
(* 4. Operational decision making                                          *)
(***************************************************************************)
\* a variant that looks at the speed first
make_operational_decisions_speed_first(ev_data) ==
    IF ev_data.speed > 70
    THEN Outcome(<<FString("EV {ev_data['ev_id']} is speeding. Reduce speed to conserve battery.",
                           <<ev_data.ev_id>>)>>, ReturnNone)
    ELSE IF ev_data.battery_level < 20
    THEN Outcome(<<FString("EV {ev_data['ev_id']} needs charging. Routing to nearest station.",
                           <<ev_data.ev_id>>)>>, ReturnNone)
    ELSE Outcome(<<FString("EV {ev_data['ev_id']} is operating normally.",
                           <<ev_data.ev_id>>)>>, ReturnNone)

\* a variant whose two comparisons include the threshold
make_operational_decisions_inclusive(ev_data) ==
    IF ev_data.battery_level <= 20
    THEN Outcome(<<FString("EV {ev_data['ev_id']} needs charging. Routing to nearest station.",
                           <<ev_data.ev_id>>)>>, ReturnNone)
    ELSE IF ev_data.speed >= 70
    THEN Outcome(<<FString("EV {ev_data['ev_id']} is speeding. Reduce speed to conserve battery.",
                           <<ev_data.ev_id>>)>>, ReturnNone)
    ELSE Outcome(<<FString("EV {ev_data['ev_id']} is operating normally.",
                           <<ev_data.ev_id>>)>>, ReturnNone)

make_operational_decisions(ev_data) ==
    IF ev_data.battery_level < 20
    THEN Outcome(<<FString("EV {ev_data['ev_id']} needs charging. Routing to nearest station.",
                           <<ev_data.ev_id>>)>>, ReturnNone)
    ELSE IF ev_data.speed > 70
    THEN Outcome(<<FString("EV {ev_data['ev_id']} is speeding. Reduce speed to conserve battery.",
                           <<ev_data.ev_id>>)>>, ReturnNone)
    ELSE Outcome(<<FString("EV {ev_data['ev_id']} is operating normally.",
                           <<ev_data.ev_id>>)>>, ReturnNone)

(***************************************************************************)
(* 5. Automation and remote control                                        *)
(***************************************************************************)
\* the dict `actions` built for ev_id
actions(ev_id) ==
    [start_charging |-> FString("EV {ev_id} started charging.", <<ev_id>>),
     stop_charging  |-> FString("EV {ev_id} stopped charging.", <<ev_id>>),
     reduce_speed   |-> FString("EV {ev_id} speed reduced.", <<ev_id>>)]

\* dict.get(key, default)
DictGet(dict, key, default) ==
    IF key \in DOMAIN dict THEN dict[key] ELSE default

\* a variant that indexes the dict, actions[action]: KeyError for a missing key
remote_control_indexing(ev_id, action) ==
    Outcome(<< >>,
            IF action \in DOMAIN actions(ev_id)
            THEN Return(actions(ev_id)[action])
            ELSE Raise("KeyError"))

remote_control(ev_id, action) ==
    Outcome(<< >>,
            Return(DictGet(actions(ev_id), action, FString("Invalid action", << >>))))

(***************************************************************************)
(* 3. / 6. The data frame and continuous improvement                       *)
(***************************************************************************)
\* pd.DataFrame(rows) for a list of snapshots: an empty list gives a frame
\* with no columns
DataFrame(rows) ==
    [columns |-> IF Len(rows) = 0 THEN {} ELSE {"ev_id", "battery_level", "speed"},
     rows    |-> rows]

\* frame[name].tolist(), for a column the frame has
Column(frame, name) == [i \in 1..Len(frame.rows) |-> frame.rows[i][name]]

RECURSIVE Sum(_)
Sum(xs) == IF Len(xs) = 0 THEN 0 ELSE Sum(SubSeq(xs, 1, Len(xs) - 1)) + xs[Len(xs)]

\* a variant that divides with //
MeanFloorDiv(xs) ==
    IF Len(xs) = 0 THEN FloatNaN ELSE FromInt(Sum(xs) \div Len(xs))

\* Series.mean() of an integer column: NaN for no rows, else the float
\* sum / count (the sums of battery levels are exact in a float)
Mean(xs) == IF Len(xs) = 0 THEN FloatNaN ELSE TrueDiv(Sum(xs), Len(xs))

\* a variant whose mask is battery_level <= 20
LowBatteryInclusive(frame) ==
    [columns |-> frame.columns,
     rows    |-> SelectSeq(frame.rows, LAMBDA r : r.battery_level <= 20)]

\* frame[frame['battery_level'] < 20]: the rows the mask keeps, in order
LowBattery(frame) ==
    [columns |-> frame.columns,
     rows    |-> SelectSeq(frame.rows, LAMBDA r : r.battery_level < 20)]

\* a variant that prints the suggestion without the test
SuggestionUnconditional(low_battery_ev) ==
    <<FString("Suggestion: Increase charging frequency for low battery EVs.", << >>)>>

\* if len(low_battery_ev) > 0: print("Suggestion: ...")
Suggestion(low_battery_ev) ==
    IF Len(low_battery_ev.rows) > 0
    THEN <<FString("Suggestion: Increase charging frequency for low battery EVs.", << >>)>>
    ELSE << >>

continuous_improvement(frame) ==
    IF "battery_level" \notin frame.columns
    THEN Outcome(<< >>, Raise("KeyError"))
    ELSE LET avg_battery    == Mean(Column(frame, "battery_level"))
             low_battery_ev == LowBattery(frame)
         IN  Outcome(
               <<FString("Average Battery Level Across Fleet: {avg_battery}%",
                         <<avg_battery>>),
                 FString("EVs with low battery: {low_battery_ev['ev_id'].tolist()}",
                         <<Column(low_battery_ev, "ev_id")>>)>>
               \o Suggestion(low_battery_ev),
               ReturnNone)

(***************************************************************************)
(* 7. Cost management and ROI                                              *)
(***************************************************************************)
\* x / 0 as IEEE-754 division gives it, without an exception
FloatInf(sign) == [cls |-> "inf", sign |-> sign, exp |-> 0, mant |-> << >>]

\* a variant whose division follows IEEE-754 (numpy scalars): inf or nan
calculate_roi_ieee(initial_investment, maintenance_costs, fuel_savings, charging_costs) ==
    LET savings    == fuel_savings - charging_costs
        net_profit == savings - maintenance_costs
    IN  IF initial_investment = 0
        THEN Outcome(<< >>, Return(IF net_profit = 0 THEN FloatNaN
                                   ELSE FloatInf(IF net_profit < 0 THEN 1 ELSE 0)))
        ELSE Outcome(<< >>,
                     Return(FloatMulInt(TrueDiv(net_profit, initial_investment), 100)))

\* a variant that adds the charging costs to the savings
calculate_roi_added_costs(initial_investment, maintenance_costs, fuel_savings, charging_costs) ==
    LET savings    == fuel_savings + charging_costs
        net_profit == savings - maintenance_costs
    IN  IF initial_investment = 0
        THEN Outcome(<< >>, Raise("ZeroDivisionError"))
        ELSE Outcome(<< >>,
                     Return(FloatMulInt(TrueDiv(net_profit, initial_investment), 100)))

\* int / int raises ZeroDivisionError for a zero divisor
calculate_roi(initial_investment, maintenance_costs, fuel_savings, charging_costs) ==
    LET savings    == fuel_savings - charging_costs
        net_profit == savings - maintenance_costs
    IN  IF initial_investment = 0
        THEN Outcome(<< >>, Raise("ZeroDivisionError"))
        ELSE Outcome(<< >>,
                     Return(FloatMulInt(TrueDiv(net_profit, initial_investment), 100)))

(***************************************************************************)
(* State.                                                                  *)
(*   data    the module-level list of collected snapshots                  *)
(*   df      the module-level frame built from data                        *)
(*   pc      where the run is: "collect" (df not built yet), "analyse"     *)
(*           (df built); for a single call "call" (pending) and "done"     *)
(*   call    the statement last executed, or the call pending              *)
(*   stdout  the lines that statement printed                              *)
(*   ret     how it ended                                                  *)
(*   hist    history, empty before the first call of                       *)
(*           continuous_improvement: the frame and outcome of the latest   *)
(*           call; others, whether other statements ran since; repeated,   *)
(*           whether that call was given the frame of the call before it   *)
(*           ("direct": nothing ran in between, "interleaved": other       *)
(*           statements did, "no": a first call or another frame)          *)
(***************************************************************************)
VARIABLES data, df, pc, call, stdout, ret, hist

vars == <<data, df, pc, call, stdout, ret, hist>>

Call(fn, args) == [fn |-> fn, args |-> args]

\* the readings (battery level, speed) the fleet's collector draws
FleetReadings == {<<10, 0>>, <<19, 71>>, <<20, 71>>, <<30, 0>>, <<50, 80>>}

\* history: another statement ran after the latest continuous_improvement
Others(h) == [i \in 1..Len(h) |-> [h[i] EXCEPT !.others = TRUE]]

(***************************************************************************)
(* The script: collect data, build df, decide for each EV, analyse.        *)
(***************************************************************************)
\* Before df is built (pc = "collect") the name df is unbound: the value
\* given here is never read, continuous_improvement(df) waits for BuildFrame.
Init ==
    /\ data = << >>
    /\ df = DataFrame(<< >>)
    /\ pc = "collect"
    /\ call = Call("", << >>)
    /\ stdout = << >>
    /\ ret = ReturnNone
    /\ hist = << >>

\* data gains collect_ev_data(ev_id) for the next id
CollectEvData ==
    /\ Len(data) < MaxBatch
    /\ \E reading \in FleetReadings :
          data' = Append(data, Snapshot(100 + Len(data) + 1, reading[1], reading[2]))
    /\ call' = Call("collect_ev_data", << >>)
    /\ stdout' = << >>
    /\ ret' = ReturnNone
    /\ hist' = Others(hist)
    /\ UNCHANGED <<df, pc>>

\* df = pd.DataFrame(data)
BuildFrame ==
    /\ df' = DataFrame(data)
    /\ pc' = "analyse"
    /\ call' = Call("DataFrame", << >>)
    /\ stdout' = << >>
    /\ ret' = ReturnNone
    /\ hist' = Others(hist)
    /\ UNCHANGED data

RECURSIVE DecideAll(_)
\* what the loop over evs prints
DecideAll(evs) ==
    IF Len(evs) = 0 THEN << >>
    ELSE DecideAll(SubSeq(evs, 1, Len(evs) - 1))
         \o make_operational_decisions(evs[Len(evs)]).stdout

\* for ev in data: make_operational_decisions(ev)
ForEvInData ==
    /\ call' = Call("for ev in data", << >>)
    /\ stdout' = DecideAll(data)
    /\ ret' = ReturnNone
    /\ hist' = Others(hist)
    /\ UNCHANGED <<data, df, pc>>

\* history: a call of continuous_improvement on frame that ended as out
Record(h, frame, out) ==
    <<[frame    |-> frame,
       outcome  |-> out,
       others   |-> FALSE,
       repeated |-> IF Len(h) = 0 \/ h[1].frame # frame THEN "no"
                    ELSE IF h[1].others THEN "interleaved" ELSE "direct"]>>

\* a variant that keeps the filtered frame in df
ContinuousImprovementInPlace ==
    /\ pc = "analyse"
    /\ LET out == continuous_improvement(df)
       IN  /\ stdout' = out.stdout
           /\ ret' = out.ret
           /\ hist' = Record(hist, df, out)
    /\ df' = LowBattery(df)
    /\ call' = Call("continuous_improvement", << >>)
    /\ UNCHANGED <<data, pc>>

\* continuous_improvement(df)
ContinuousImprovement ==
    /\ pc = "analyse"
    /\ LET out == continuous_improvement(df)
       IN  /\ stdout' = out.stdout
           /\ ret' = out.ret
           /\ hist' = Record(hist, df, out)
    /\ call' = Call("continuous_improvement", << >>)
    /\ UNCHANGED <<data, df, pc>>

Next ==
    \/ CollectEvData
    \/ BuildFrame
    \/ ForEvInData
    \/ ContinuousImprovement

Spec == Init /\ [][Next]_vars

(***************************************************************************)
(* Single calls of the pure functions, on arguments the caller chooses.    *)
(***************************************************************************)
\* the action names a caller passes: the three known ones and others
ActionNames ==
    {"start_charging", "stop_charging", "reduce_speed",
     "fly", "", "START_CHARGING", "start_charging ", "Invalid action"}

\* the amounts a caller passes to calculate_roi
Investments == {0, 500000, 700000, -500000, 3}

MaintenanceCosts == {20000, 0, -20000}

FuelSavings == {60000, 79000, 0, -60000}

ChargingCosts == {10000, 0, -10000}

InitCalls ==
    /\ data = << >>
    /\ df = DataFrame(<< >>)
    /\ pc = "call"
    /\ stdout = << >>
    /\ ret = ReturnNone
    /\ hist = << >>
    /\ \/ \E ev_id \in EvIds, battery_level \in BatteryLevels, speed \in Speeds :
             call = Call("make_operational_decisions",
                         <<Snapshot(ev_id, battery_level, speed)>>)
       \/ \E ev_id \in EvIds, action \in ActionNames :
             call = Call("remote_control", <<ev_id, action>>)
       \/ \E ii \in Investments, mc \in MaintenanceCosts,
             fs \in FuelSavings, cc \in ChargingCosts :
             call = Call("calculate_roi", <<ii, mc, fs, cc>>)

Finish(out) ==
    /\ stdout' = out.stdout
    /\ ret' = out.ret
    /\ pc' = "done"
    /\ UNCHANGED <<data, df, call, hist>>

MakeOperationalDecisions ==
    /\ pc = "call"
    /\ call.fn = "make_operational_decisions"
    /\ Finish(make_operational_decisions(call.args[1]))

RemoteControl ==
    /\ pc = "call"
    /\ call.fn = "remote_control"
    /\ Finish(remote_control(call.args[1], call.args[2]))

CalculateRoi ==
    /\ pc = "call"
    /\ call.fn = "calculate_roi"
    /\ Finish(calculate_roi(call.args[1], call.args[2], call.args[3], call.args[4]))

NextCalls ==
    \/ MakeOperationalDecisions
    \/ RemoteControl
    \/ CalculateRoi

SpecCalls == InitCalls /\ [][NextCalls]_vars

(***************************************************************************)
(* The claims.                                                             *)
(***************************************************************************)
\* a single call of fn has been made
Done(fn) == pc = "done" /\ call.fn = fn

\* the recommendation a printed line of make_operational_decisions stands for
Recommendation(line) ==
    CASE line.template = "EV {ev_data['ev_id']} needs charging. Routing to nearest station."
           -> "route_to_charging"
      [] line.template = "EV {ev_data['ev_id']} is speeding. Reduce speed to conserve battery."
           -> "reduce_speed"
      [] line.template = "EV {ev_data['ev_id']} is operating normally."
           -> "normal_operation"
      [] OTHER -> "none"

\* C1: every snapshot gets exactly one of the three recommendations, in
\* priority order: battery_level < 20 gives route_to_charging whatever the
\* speed; reduce_speed is given exactly when battery_level >= 20 and
\* speed > 70; every other snapshot gets normal_operation.
C1_PriorityOrder ==
    Done("make_operational_decisions") =>
        LET ev == call.args[1]
        IN  /\ ret = ReturnNone
            /\ Len(stdout) = 1
            /\ stdout[1].values = <<ev.ev_id>>
            /\ Recommendation(stdout[1]) \in
                   {"route_to_charging", "reduce_speed", "normal_operation"}
            /\ ev.battery_level < 20 => Recommendation(stdout[1]) = "route_to_charging"
            /\ Recommendation(stdout[1]) = "reduce_speed"
                   <=> (ev.battery_level >= 20 /\ ev.speed > 70)
            /\ (ev.battery_level >= 20 /\ ev.speed <= 70)
                   => Recommendation(stdout[1]) = "normal_operation"

\* C1's case: a snapshot both low on battery and speeding is routed to charging
C1_Witness ==
    /\ Done("make_operational_decisions")
    /\ call.args[1].battery_level < 20
    /\ call.args[1].speed > 70
    /\ Len(stdout) = 1
    /\ Recommendation(stdout[1]) = "route_to_charging"

\* C2: the thresholds are strict: battery_level 20 is never low battery and
\* speed 70 is never speeding; (20, 0) and (100, 70) give normal_operation,
\* (19, 0) gives route_to_charging and (100, 71) gives reduce_speed.
C2_StrictThresholds ==
    Done("make_operational_decisions") =>
        LET ev  == call.args[1]
            rec == Recommendation(stdout[1])
        IN  /\ Len(stdout) = 1
            /\ ev.battery_level = 20 => rec # "route_to_charging"
            /\ ev.speed = 70 => rec # "reduce_speed"
            /\ (ev.battery_level = 20 /\ ev.speed = 0) => rec = "normal_operation"
            /\ (ev.battery_level = 19 /\ ev.speed = 0) => rec = "route_to_charging"
            /\ (ev.battery_level = 100 /\ ev.speed = 70) => rec = "normal_operation"
            /\ (ev.battery_level = 100 /\ ev.speed = 71) => rec = "reduce_speed"
            /\ (ev.battery_level = 20 /\ ev.speed = 70) => rec = "normal_operation"

\* C2's case: battery_level exactly 20 at speed 0 operates normally
C2_Witness ==
    /\ Done("make_operational_decisions")
    /\ call.args[1].battery_level = 20
    /\ call.args[1].speed = 0
    /\ Len(stdout) = 1
    /\ Recommendation(stdout[1]) = "normal_operation"

\* continuous_improvement was the statement last executed, on df
Analysed == call.fn = "continuous_improvement"

\* C3: continuous_improvement on an empty batch fails with an EmptyBatch
\* error and prints no summary.
C3_EmptyBatchError ==
    (Analysed /\ Len(df.rows) = 0) =>
        /\ ret.kind = "raise"
        /\ ret.exc = "EmptyBatch"
        /\ stdout = << >>

\* the positions of the rows of df with battery_level < 20
LowRows == {i \in 1..Len(df.rows) : df.rows[i].battery_level < 20}

\* the k-th smallest element of a set of numbers
Kth(S, k) == CHOOSE i \in S : Cardinality({j \in S : j <= i}) = k

\* C4: for a non-empty batch the low-battery list printed holds exactly the
\* ev_ids of the rows with battery_level < 20 (20 itself excluded), in the
\* order of those rows in the batch.
C4_LowBatteryList ==
    (Analysed /\ Len(df.rows) > 0) =>
        /\ ret = ReturnNone
        /\ Len(stdout) >= 2
        /\ stdout[2].template = "EVs with low battery: {low_battery_ev['ev_id'].tolist()}"
        /\ LET ids == stdout[2].values[1]
           IN  /\ Len(ids) = Cardinality(LowRows)
               /\ \A k \in 1..Len(ids) : ids[k] = df.rows[Kth(LowRows, k)].ev_id
               /\ \A i \in 1..Len(df.rows) :
                     df.rows[i].battery_level >= 20 =>
                        \A k \in 1..Len(ids) : ids[k] # df.rows[i].ev_id

\* C4's case: a batch with a row at 20 between two low rows lists the two
C4_Witness ==
    /\ Analysed
    /\ Len(df.rows) = 3
    /\ df.rows[1].battery_level = 10
    /\ df.rows[2].battery_level = 20
    /\ df.rows[3].battery_level = 19
    /\ Len(stdout) >= 2
    /\ stdout[2].values[1] = <<df.rows[1].ev_id, df.rows[3].ev_id>>

\* the suggestion line is among the lines printed
Suggested ==
    \E i \in 1..Len(stdout) :
        stdout[i].template = "Suggestion: Increase charging frequency for low battery EVs."

\* C5: the suggestion is printed if and only if some row of the batch has
\* battery_level < 20.
C5_SuggestionIffLow ==
    Analysed => (Suggested <=> \E i \in 1..Len(df.rows) : df.rows[i].battery_level < 20)

\* C5's case: a batch with one low row among others gets the suggestion
C5_Witness ==
    /\ Analysed
    /\ Len(df.rows) >= 2
    /\ \E i \in 1..Len(df.rows) : df.rows[i].battery_level < 20
    /\ \E i \in 1..Len(df.rows) : df.rows[i].battery_level >= 20
    /\ Suggested

\* C6: calculate_roi with initial_investment 0 fails with a division-by-zero
\* error (Python's ZeroDivisionError) whatever the other inputs, and returns
\* no value.
C6_ZeroInvestmentRaises ==
    (Done("calculate_roi") /\ call.args[1] = 0) =>
        /\ ret.kind = "raise"
        /\ ret.exc = "ZeroDivisionError"
        /\ ret.value = << >>

\* C6's case: zero investment with the script's other amounts raises
C6_Witness ==
    /\ Done("calculate_roi")
    /\ call.args = <<0, 20000, 60000, 10000>>
    /\ ret.kind = "raise"

RecognizedActions == {"start_charging", "stop_charging", "reduce_speed"}

\* C7: remote_control returns the sentinel "Invalid action" for every
\* unrecognized action name and never fails; for a recognized action it
\* returns that action's description with the given ev_id, never the sentinel.
C7_RemoteControl ==
    Done("remote_control") =>
        /\ ret.kind = "return"
        /\ Len(ret.value) = 1
        /\ LET ev_id  == call.args[1]
               action == call.args[2]
               text   == ret.value[1]
           IN  /\ action \notin RecognizedActions
                     => (text.template = "Invalid action" /\ text.values = << >>)
               /\ action \in RecognizedActions
                     => (text.template # "Invalid action" /\ text.values = <<ev_id>>)
               /\ action = "start_charging"
                     => text.template = "EV {ev_id} started charging."
               /\ action = "stop_charging"
                     => text.template = "EV {ev_id} stopped charging."
               /\ action = "reduce_speed"
                     => text.template = "EV {ev_id} speed reduced."

\* C7's case: the unknown action "fly" for EV 101 gives the sentinel
C7_Witness ==
    /\ Done("remote_control")
    /\ call.args = <<101, "fly">>
    /\ ret.kind = "return"
    /\ Len(ret.value) = 1
    /\ ret.value[1].template = "Invalid action"

\* C8: for initial_investment # 0, negative amounts included, calculate_roi
\* returns the float ((fuel_savings - charging_costs - maintenance_costs)
\* / initial_investment) * 100; for 500000, 20000, 60000, 10000 that is 6.0.
C8_RoiFormula ==
    (Done("calculate_roi") /\ call.args[1] # 0) =>
        LET ii == call.args[1]
            mc == call.args[2]
            fs == call.args[3]
            cc == call.args[4]
        IN  /\ ret.kind = "return"
            /\ ret.value = <<FloatMulInt(TrueDiv(fs - cc - mc, ii), 100)>>
            /\ call.args = <<500000, 20000, 60000, 10000>>
                  => ret.value = <<FromInt(6)>>

\* C8's case: the script's amounts give 6.0
C8_Witness ==
    /\ Done("calculate_roi")
    /\ call.args = <<500000, 20000, 60000, 10000>>
    /\ ret.kind = "return"
    /\ ret.value = <<FromInt(6)>>

RECURSIVE SumOver(_, _)
\* the sum of xs over the positions in S, taken in no particular order
SumOver(xs, S) ==
    IF S = {} THEN 0
    ELSE LET i == CHOOSE j \in S : TRUE
         IN  xs[i] + SumOver(xs, S \ {i})

\* the battery levels of df as a bag: level -> number of rows
Levels == [b \in {df.rows[i].battery_level : i \in 1..Len(df.rows)} |->
              Cardinality({i \in 1..Len(df.rows) : df.rows[i].battery_level = b})]

\* C9: for a non-empty batch the mean printed is the sum of the battery
\* levels divided by the number of rows, whatever the order of the rows; it
\* is that integer when the division is exact, and 30 for levels 10, 30, 50.
C9_MeanBattery ==
    (Analysed /\ Len(df.rows) > 0) =>
        LET n     == Len(df.rows)
            total == SumOver([i \in 1..n |-> df.rows[i].battery_level], 1..n)
        IN  /\ Len(stdout) >= 1
            /\ stdout[1].template = "Average Battery Level Across Fleet: {avg_battery}%"
            /\ stdout[1].values = <<TrueDiv(total, n)>>
            /\ total % n = 0 => stdout[1].values = <<FromInt(total \div n)>>
            /\ Levels = (10 :> 1) @@ (30 :> 1) @@ (50 :> 1)
                  => stdout[1].values = <<FromInt(30)>>

\* C9's case: levels 50, 10, 30, in an order other than ascending, give 30.0
C9_Witness ==
    /\ Analysed
    /\ Len(df.rows) = 3
    /\ df.rows[1].battery_level = 50
    /\ df.rows[2].battery_level = 10
    /\ df.rows[3].battery_level = 30
    /\ Len(stdout) >= 1
    /\ stdout[1].values = <<FromInt(30)>>

\* C10: continuous_improvement leaves df and data as they are, and a call on
\* the frame of the call before it prints and ends as that call did, whatever
\* ran in between.
C10_Idempotent ==
    [][call'.fn = "continuous_improvement" =>
          /\ df' = df
          /\ data' = data
          /\ (Len(hist) = 1 /\ hist[1].frame = df) =>
                (stdout' = hist[1].outcome.stdout /\ ret' = hist[1].outcome.ret)]_vars

\* C10's case: a second call on the same non-empty frame, with other
\* statements run in between, printed what the first printed
C10_Witness ==
    /\ Analysed
    /\ Len(hist) = 1
    /\ hist[1].repeated = "interleaved"
    /\ hist[1].frame = df
    /\ Len(df.rows) >= 2
    /\ Len(data) > Len(df.rows)
    /\ stdout = hist[1].outcome.stdout
    /\ Suggested
=============================================================================
